---------------------------- MODULE Spec2Model ----------------------------
(***************************************************************************)
(* TaskLogger (src/unnamed/part_000, lines 53-364): the step / job         *)
(* progress state machine and its writes to the remote append-log store.   *)
(*                                                                         *)
(* The program state is the closure state of one TaskLogger instance       *)
(* (fatal, finished, steps, handler), the observers registered through     *)
(* on(), and the remote store as far as this logger writes it.  Every      *)
(* public operation is one action.  Operations that call one another in    *)
(* the source (fatalError -> create -> handler.finish) are composed from   *)
(* operators over a record of the program state, so an action is the whole *)
(* call.  `last` records the most recent call and what it did (events      *)
(* emitted, exception raised, store writes issued, in issue order).        *)
(*                                                                         *)
(* Time is abstracted: every reading of the clock yields the token Now.    *)
(* Store writes take effect on `remote` and `progress` in issue order.     *)
(* The entry behind initializeStepReference is written elsewhere; Init     *)
(* gives it the content of the constructor's initializeStep.  The store's  *)
(* value notifications to the watcher that create arms (lines 171-177) are *)
(* the action Notify of the specification SpecWatch.  Not part of this     *)
(* model: addErrorMessageToEndOfSteps (lines 111-128).  The Redis write    *)
(* strategies (lines 1-52) are pure functions of their arguments; one push *)
(* through them is the specification SpecRedis.                            *)
(***************************************************************************)
EXTENDS Naturals, Sequences, FiniteSets, TLC

\* Bound of the model: the number of calls the caller makes on one TaskLogger
\* (and of notifications the store delivers to it).
MaxCalls == 4

STATUS ==
    [PENDING |-> "pending", RUNNING |-> "running", SUCCESS |-> "success",
     ERROR |-> "error", SKIPPED |-> "skipped", WARNING |-> "warning"]

Terminal == {STATUS.SUCCESS, STATUS.ERROR, STATUS.SKIPPED, STATUS.WARNING}

\* JavaScript values of the model.
Undefined == "undefined"
Now == "now"
NoErr == ""
Errs == {NoErr, "Error: boom"}
Truthy(v) == v # "" /\ v # Undefined

InitializingProcess == "Initializing Process"
SomethingWentWrong == "Something went wrong"

\* Inputs of create: names and ids (the empty id is falsy, so the key is the name).
Names == {"build", InitializingProcess}
Ids == {"", "build"}
Messages == {"m"}
Keys == (Names \cup Ids \cup {SomethingWentWrong}) \ {""}

NoHandler == "no handler"
NullHandle == "null-object"
NoStep ==
    [name |-> Undefined, id |-> Undefined, status |-> "absent", hasWarning |-> FALSE,
     finishTimeStamp |-> Undefined, ref |-> 0]

VARIABLES
    fatal,                    \* var fatal
    finished,                 \* var finished
    steps,                    \* var steps: key -> step object (NoStep: no property)
    handler,                  \* var handler: key of the step the handler closes over
    listeners,                \* events with an observer registered through on()
    remote,                   \* the store's step entries, indexed by reference
    progress,                 \* the store's job entry (progressRef)
    pushCount,                \* key -> number of stepsRef.push(step) issued for it
    held,                     \* handles the caller holds: step keys, NullHandle
    watching,                 \* references with the "value" watcher of create armed
    acks,                     \* key -> number of "step-pushed" events emitted for it
    recent,                   \* key of the step the most recent create returned
    snapshot,                 \* the value of the last notification the store delivered
    redis,                    \* one push through the Redis strategies (lines 1-52)
    initializeStepReference,  \* constructor argument
    firstStepCreationTime,    \* constructor argument
    calls,                    \* number of calls made so far
    last                      \* the most recent call and its outcome

vars ==
    <<fatal, finished, steps, handler, listeners, remote, progress, pushCount,
      held, watching, acks, recent, snapshot, redis, initializeStepReference,
      firstStepCreationTime, calls, last>>

----------------------------------------------------------------------------
(* The program state as one record, and the outcome of the running call.   *)

NoOut == [emitted |-> <<>>, threw |-> "none", writes |-> <<>>, posted |-> FALSE,
          ret |-> Undefined]

Cur ==
    [fatal |-> fatal, finished |-> finished, steps |-> steps, handler |-> handler,
     listeners |-> listeners, remote |-> remote, progress |-> progress,
     pushCount |-> pushCount, watching |-> watching, acks |-> acks,
     first |-> firstStepCreationTime, out |-> NoOut]

W(ref, path, method, val) == [ref |-> ref, path |-> path, method |-> method, val |-> val]

Issue(s, w) == [s EXCEPT !.out.writes = Append(@, w)]

\* key of a step: id || name
Key(name, id) == IF Truthy(id) THEN id ELSE name

IsActive(status) == status = STATUS.RUNNING \/ status = STATUS.PENDING

----------------------------------------------------------------------------
(* EventEmitter: emit delivers to the registered observers; an "error"     *)
(* event with no observer registered is thrown by emit.                    *)

emit(s, ev) ==
    [s EXCEPT !.out.emitted = Append(@, ev),
              !.out.threw = IF ev = "error" /\ "error" \notin s.listeners
                            THEN "CFError" ELSE @]

----------------------------------------------------------------------------
(* create                                                                  *)

\* mutant: create does not look the key up
StepExists_Never(s, key) == FALSE

StepExists(s, key) == s.steps[key] # NoStep

isEmpty(stepsObj) == \A k \in Keys : stepsObj[k] = NoStep

creationTimeStamp(s) ==
    IF Truthy(s.first) /\ isEmpty(s.steps) THEN s.first ELSE Now

\* mutant: a re-create leaves the status of the step as it was
create_KeepsStatus(s, name, id, eventReporting) ==
    IF s.fatal \/ s.finished
    THEN [s EXCEPT !.out.ret = NullHandle]
    ELSE LET key == Key(name, id) IN
         IF ~StepExists(s, key)
         THEN LET ref == Len(s.remote) + 1
                  cts == creationTimeStamp(s)
                  step == [name |-> name, id |-> id, status |-> STATUS.PENDING,
                           hasWarning |-> FALSE, finishTimeStamp |-> Undefined,
                           ref |-> ref]
                  entry == [name |-> name, id |-> id, creationTimeStamp |-> cts,
                            status |-> STATUS.PENDING, finishTimeStamp |-> Undefined,
                            logs |-> <<>>]
                  s1 == [s EXCEPT !.steps[key] = step,
                                  !.remote = Append(@, entry),
                                  !.pushCount[key] = @ + 1,
                                  !.watching = @ \cup {ref},
                                  !.out.posted = eventReporting,
                                  !.handler = key,
                                  !.out.ret = key]
              IN  Issue(s1, W(ref, "steps", "push", <<name, id, cts, STATUS.PENDING>>))
         ELSE LET ref == s.steps[key].ref
                  s1 == [s EXCEPT !.remote[ref].status = STATUS.PENDING,
                                  !.remote[ref].finishTimeStamp = "",
                                  !.handler = key,
                                  !.out.ret = key]
              IN  Issue(s1, W(ref, "", "update",
                              <<"status", STATUS.PENDING, "finishTimeStamp", "">>))

\* mutant: a re-create clears the warning flag of the step
create_ClearsWarning(s, name, id, eventReporting) ==
    IF s.fatal \/ s.finished
    THEN [s EXCEPT !.out.ret = NullHandle]
    ELSE LET key == Key(name, id) IN
         IF ~StepExists(s, key)
         THEN LET ref == Len(s.remote) + 1
                  cts == creationTimeStamp(s)
                  step == [name |-> name, id |-> id, status |-> STATUS.PENDING,
                           hasWarning |-> FALSE, finishTimeStamp |-> Undefined,
                           ref |-> ref]
                  entry == [name |-> name, id |-> id, creationTimeStamp |-> cts,
                            status |-> STATUS.PENDING, finishTimeStamp |-> Undefined,
                            logs |-> <<>>]
                  s1 == [s EXCEPT !.steps[key] = step,
                                  !.remote = Append(@, entry),
                                  !.pushCount[key] = @ + 1,
                                  !.watching = @ \cup {ref},
                                  !.out.posted = eventReporting,
                                  !.handler = key,
                                  !.out.ret = key]
              IN  Issue(s1, W(ref, "steps", "push", <<name, id, cts, STATUS.PENDING>>))
         ELSE LET ref == s.steps[key].ref
                  s1 == [s EXCEPT !.steps[key].status = STATUS.PENDING,
                                  !.steps[key].hasWarning = FALSE,
                                  !.remote[ref].status = STATUS.PENDING,
                                  !.remote[ref].finishTimeStamp = "",
                                  !.handler = key,
                                  !.out.ret = key]
              IN  Issue(s1, W(ref, "", "update",
                              <<"status", STATUS.PENDING, "finishTimeStamp", "">>))

create(s, name, id, eventReporting) ==
    IF s.fatal \/ s.finished
    THEN [s EXCEPT !.out.ret = NullHandle]
    ELSE LET key == Key(name, id) IN
         IF ~StepExists(s, key)
         THEN LET ref == Len(s.remote) + 1
                  cts == creationTimeStamp(s)
                  step == [name |-> name, id |-> id, status |-> STATUS.PENDING,
                           hasWarning |-> FALSE, finishTimeStamp |-> Undefined,
                           ref |-> ref]
                  entry == [name |-> name, id |-> id, creationTimeStamp |-> cts,
                            status |-> STATUS.PENDING, finishTimeStamp |-> Undefined,
                            logs |-> <<>>]
                  s1 == [s EXCEPT !.steps[key] = step,
                                  !.remote = Append(@, entry),
                                  !.pushCount[key] = @ + 1,
                                  !.watching = @ \cup {ref},
                                  !.out.posted = eventReporting,
                                  !.handler = key,
                                  !.out.ret = key]
              IN  Issue(s1, W(ref, "steps", "push", <<name, id, cts, STATUS.PENDING>>))
         ELSE LET ref == s.steps[key].ref
                  s1 == [s EXCEPT !.steps[key].status = STATUS.PENDING,
                                  !.remote[ref].status = STATUS.PENDING,
                                  !.remote[ref].finishTimeStamp = "",
                                  !.handler = key,
                                  !.out.ret = key]
              IN  Issue(s1, W(ref, "", "update",
                              <<"status", STATUS.PENDING, "finishTimeStamp", "">>))

\* mutant: the watcher stays registered after the matching notification
notify_KeepsWatching(s, k, val) ==
    IF val.exists /\ val.name = s.steps[k].name
    THEN emit([s EXCEPT !.acks[k] = @ + 1], "step-pushed")
    ELSE s

\* the callback create registers on the entry of a new step (lines 171-177)
notify(s, k, val) ==
    IF val.exists /\ val.name = s.steps[k].name
    THEN emit([s EXCEPT !.watching = @ \ {s.steps[k].ref},
                        !.acks[k] = @ + 1], "step-pushed")
    ELSE s

----------------------------------------------------------------------------
(* The handler returned by create, closed over the step of key k.          *)

\* mutant: the handler methods do not consult the fatal latch
Blocked_Never(s) == FALSE

Blocked(s) == s.fatal

touchLastUpdate(s) ==
    Issue([s EXCEPT !.progress.lastUpdate = Now], W(0, "lastUpdate", "set", <<Now>>))

pushLog(s, k, line) ==
    LET ref == s.steps[k].ref IN
    Issue([s EXCEPT !.remote[ref].logs = Append(@, line)], W(ref, "logs", "push", <<line>>))

\* mutant: start does not check that the step is pending
handler_start_NoStatusCheck(s, k) ==
    IF Blocked(s) THEN s
    ELSE Issue([s EXCEPT !.steps[k].status = STATUS.RUNNING,
                         !.progress.status = STATUS.RUNNING],
               W(0, "status", "set", <<STATUS.RUNNING>>))

handler_start(s, k) ==
    IF Blocked(s) THEN s
    ELSE IF s.steps[k].status = STATUS.PENDING
    THEN Issue([s EXCEPT !.steps[k].status = STATUS.RUNNING,
                         !.progress.status = STATUS.RUNNING],
               W(0, "status", "set", <<STATUS.RUNNING>>))
    ELSE emit(s, "error")

\* mutant: write does not check the status of the step
handler_write_NoStatusCheck(s, k, message) ==
    IF Blocked(s) THEN s ELSE touchLastUpdate(pushLog(s, k, message))

handler_write(s, k, message) ==
    IF Blocked(s) THEN s
    ELSE IF IsActive(s.steps[k].status)
    THEN touchLastUpdate(pushLog(s, k, message))
    ELSE emit(s, "error")

handler_debug(s, k, message) ==
    IF Blocked(s) THEN s
    ELSE IF IsActive(s.steps[k].status)
    THEN touchLastUpdate(pushLog(s, k, message \o "\r\n"))
    ELSE emit(s, "error")

handler_warn(s, k, message) ==
    IF Blocked(s) THEN s
    ELSE IF IsActive(s.steps[k].status)
    THEN touchLastUpdate(pushLog([s EXCEPT !.steps[k].hasWarning = TRUE], k,
                                 "\\x1B[01;93m" \o message \o "\\x1B[0m\r\n"))
    ELSE emit(s, "error")

handler_info(s, k, message) ==
    IF Blocked(s) THEN s
    ELSE IF IsActive(s.steps[k].status)
    THEN touchLastUpdate(pushLog(s, k, message \o "\r\n"))
    ELSE emit(s, "error")

\* mutant: the warning flag is not consulted at finish
FinishStatus_IgnoresWarning(err, skip, hasWarning) ==
    IF skip THEN STATUS.SKIPPED
    ELSE IF Truthy(err) THEN STATUS.ERROR ELSE STATUS.SUCCESS

\* the status a valid finish(err, skip) gives the step
FinishStatus(err, skip, hasWarning) ==
    LET s0 == IF Truthy(err) THEN STATUS.ERROR ELSE STATUS.SUCCESS
        s1 == IF skip THEN STATUS.SKIPPED ELSE s0
    IN  IF ~Truthy(err) /\ hasWarning THEN STATUS.WARNING ELSE s1

\* mutant: an accepted finish leaves the TaskLogger's handler in place
handler_finish_KeepsHandler(s, k, err, skip) ==
    IF Blocked(s) THEN s
    ELSE IF IsActive(s.steps[k].status)
    THEN LET ref == s.steps[k].ref
             status == FinishStatus(err, skip, s.steps[k].hasWarning)
             s1 == [s EXCEPT !.steps[k].finishTimeStamp = Now,
                             !.steps[k].status = status]
             s2 == IF Truthy(err)
                   THEN pushLog(s1, k, "\\x1B[31m" \o err \o "\\x1B[0m\r\n")
                   ELSE s1
             s3 == Issue([s2 EXCEPT !.remote[ref].status = status,
                                    !.remote[ref].finishTimeStamp = Now],
                         W(ref, "", "update",
                           <<"status", status, "finishTimeStamp", Now>>))
         IN  touchLastUpdate(s3)
    ELSE emit(s, "error")

\* mutant: finish updates the status before it pushes the error line
handler_finish_UpdateFirst(s, k, err, skip) ==
    IF Blocked(s) THEN s
    ELSE IF IsActive(s.steps[k].status)
    THEN LET ref == s.steps[k].ref
             status == FinishStatus(err, skip, s.steps[k].hasWarning)
             s1 == [s EXCEPT !.steps[k].finishTimeStamp = Now,
                             !.steps[k].status = status]
             s2 == Issue([s1 EXCEPT !.remote[ref].status = status,
                                    !.remote[ref].finishTimeStamp = Now],
                         W(ref, "", "update",
                           <<"status", status, "finishTimeStamp", Now>>))
             s3 == IF Truthy(err)
                   THEN pushLog(s2, k, "\\x1B[31m" \o err \o "\\x1B[0m\r\n")
                   ELSE s2
             s4 == touchLastUpdate(s3)
         IN  [s4 EXCEPT !.handler = NoHandler]
    ELSE emit(s, "error")

handler_finish(s, k, err, skip) ==
    IF Blocked(s) THEN s
    ELSE IF IsActive(s.steps[k].status)
    THEN LET ref == s.steps[k].ref
             status == FinishStatus(err, skip, s.steps[k].hasWarning)
             s1 == [s EXCEPT !.steps[k].finishTimeStamp = Now,
                             !.steps[k].status = status]
             s2 == IF Truthy(err)
                   THEN pushLog(s1, k, "\\x1B[31m" \o err \o "\\x1B[0m\r\n")
                   ELSE s1
             s3 == Issue([s2 EXCEPT !.remote[ref].status = status,
                                    !.remote[ref].finishTimeStamp = Now],
                         W(ref, "", "update",
                           <<"status", status, "finishTimeStamp", Now>>))
             s4 == touchLastUpdate(s3)
         IN  [s4 EXCEPT !.handler = NoHandler]
    ELSE emit(s, "error")

handler_resetCreationTimeStamp(s, k) ==
    IF Blocked(s) THEN s
    ELSE IF IsActive(s.steps[k].status)
    THEN LET ref == s.steps[k].ref IN
         touchLastUpdate(
             Issue([s EXCEPT !.remote[ref].creationTimeStamp = Now],
                   W(ref, "creationTimeStamp", "set", <<Now>>)))
    ELSE emit(s, "error")

Getters == {"getReference", "getLogsReference", "getLastUpdateReference", "getStatus"}

handler_get(s, k, g) ==
    [s EXCEPT !.out.ret = IF g = "getStatus" THEN s.steps[k].status ELSE g]

\* the methods of the handle create returns once the job is fatal or finished
NullMethods ==
    {"getReference", "getLogsReference", "getLastUpdateReference",
     "write", "debug", "warn", "info", "finish"}

HandleMethods ==
    {"start", "write", "debug", "warn", "info", "finish", "resetCreationTimeStamp"}
        \cup Getters

\* a call of method m on the null-object handle: an empty function, or no
\* such property (calling undefined is a TypeError)
null_call(s, m) ==
    IF m \in NullMethods THEN s ELSE [s EXCEPT !.out.threw = "TypeError"]

\* a call of any method on whatever handle h a create returned
call_finish(s, h, err, skip) ==
    IF h = NullHandle THEN null_call(s, "finish") ELSE handler_finish(s, h, err, skip)

----------------------------------------------------------------------------
(* finish and fatalError of the TaskLogger                                 *)

Threw(s) == s.out.threw # "none"

finish(s, err) ==
    IF s.fatal THEN s
    ELSE LET s1 == IF s.handler # NoHandler
                   THEN handler_finish(s, s.handler, err, FALSE)
                   ELSE s
         IN  IF Threw(s1) THEN s1 ELSE [s1 EXCEPT !.finished = TRUE]

\* mutant: the fatal latch is consulted before the error argument
fatalError_LatchFirst(s, err) ==
    IF s.fatal THEN s
    ELSE IF ~Truthy(err) THEN [s EXCEPT !.out.threw = "CFError"]
    ELSE LET s1 == IF s.handler # NoHandler
                   THEN handler_finish(s, s.handler, err, FALSE)
                   ELSE LET c == create(s, SomethingWentWrong, Undefined, FALSE)
                        IN  call_finish(c, c.out.ret, err, FALSE)
         IN  [s1 EXCEPT !.fatal = TRUE]

fatalError(s, err) ==
    IF ~Truthy(err) THEN [s EXCEPT !.out.threw = "CFError"]
    ELSE IF s.fatal THEN s
    ELSE LET s1 == IF s.handler # NoHandler
                   THEN handler_finish(s, s.handler, err, FALSE)
                   ELSE LET c == create(s, SomethingWentWrong, Undefined, FALSE)
                        IN  IF Threw(c) THEN c
                            ELSE call_finish(c, c.out.ret, err, FALSE)
         IN  IF Threw(s1) THEN s1 ELSE [s1 EXCEPT !.fatal = TRUE]

----------------------------------------------------------------------------
(* The state after construction (lines 80-109).                            *)

\* snapshot.val() of a notification: null, or the entry with its name
Snapshot(exists, name) == [exists |-> exists, name |-> name]
NoSnapshot == Snapshot(FALSE, "")

LoggerInit ==
    /\ fatal = FALSE
    /\ finished = FALSE
    /\ handler = NoHandler
    /\ listeners = {}
    /\ held = {}
    /\ initializeStepReference \in BOOLEAN
    /\ firstStepCreationTime \in {Undefined, "firstStepCreationTime"}
    /\ steps = [k \in Keys |->
                  IF k = InitializingProcess /\ initializeStepReference
                  THEN [name |-> InitializingProcess, id |-> Undefined,
                        status |-> STATUS.RUNNING, hasWarning |-> FALSE,
                        finishTimeStamp |-> Undefined, ref |-> 1]
                  ELSE NoStep]
    /\ remote = IF initializeStepReference
                THEN <<[name |-> InitializingProcess, id |-> Undefined,
                        creationTimeStamp |-> Now, status |-> STATUS.RUNNING,
                        finishTimeStamp |-> Undefined, logs |-> <<>>]>>
                ELSE <<>>
    /\ progress = [status |-> Undefined, lastUpdate |-> Undefined]
    /\ pushCount = [k \in Keys |-> 0]
    /\ watching = {}
    /\ acks = [k \in Keys |-> 0]
    /\ recent = Undefined
    /\ snapshot = NoSnapshot
    /\ calls = 0
    /\ last = [op |-> "new", handle |-> "job", key |-> Undefined, err |-> NoErr,
               skip |-> FALSE, emitted |-> <<>>, threw |-> "none", writes |-> <<>>,
               posted |-> FALSE, ret |-> Undefined,
               was |-> [fatal |-> FALSE, finished |-> FALSE]]

\* no push through the Redis strategies is under way
RedisIdle == [pc |-> "idle"]

Init == LoggerInit /\ redis = RedisIdle

----------------------------------------------------------------------------
(* One action per public operation.  Commit(s, ...) makes s, the state the *)
(* call leaves, the next state and records the call in `last`.             *)

Commit(s, op, handle, key, err, skip) ==
    /\ calls < MaxCalls
    /\ calls' = calls + 1
    /\ fatal' = s.fatal
    /\ finished' = s.finished
    /\ steps' = s.steps
    /\ handler' = s.handler
    /\ remote' = s.remote
    /\ progress' = s.progress
    /\ pushCount' = s.pushCount
    /\ watching' = s.watching
    /\ acks' = s.acks
    /\ last' = [op |-> op, handle |-> handle, key |-> key, err |-> err, skip |-> skip,
                emitted |-> s.out.emitted, threw |-> s.out.threw,
                writes |-> s.out.writes, posted |-> s.out.posted, ret |-> s.out.ret,
                was |-> [fatal |-> fatal, finished |-> finished]]
    /\ UNCHANGED <<initializeStepReference, firstStepCreationTime, redis>>

On(ev) ==
    /\ calls < MaxCalls
    /\ calls' = calls + 1
    /\ listeners' = listeners \cup {ev}
    /\ last' = [op |-> "on", handle |-> "job", key |-> ev, err |-> NoErr, skip |-> FALSE,
                emitted |-> <<>>, threw |-> "none", writes |-> <<>>, posted |-> FALSE,
                ret |-> Undefined, was |-> [fatal |-> fatal, finished |-> finished]]
    /\ UNCHANGED <<fatal, finished, steps, handler, remote, progress, pushCount, held,
                   watching, acks, recent, snapshot, redis, initializeStepReference,
                   firstStepCreationTime>>

Create(name, id, eventReporting) ==
    LET s == create(Cur, name, id, eventReporting) IN
    /\ Commit(s, "create", "job", Key(name, id), NoErr, FALSE)
    /\ held' = held \cup {s.out.ret}
    /\ recent' = IF s.out.ret \in Keys THEN s.out.ret ELSE recent
    /\ UNCHANGED <<listeners, snapshot>>

Start(k) ==
    /\ k \in held
    /\ Commit(handler_start(Cur, k), "start", "step", k, NoErr, FALSE)
    /\ UNCHANGED <<held, recent, listeners, snapshot>>

Write(k, message) ==
    /\ k \in held
    /\ Commit(handler_write(Cur, k, message), "write", "step", k, NoErr, FALSE)
    /\ UNCHANGED <<held, recent, listeners, snapshot>>

Debug(k, message) ==
    /\ k \in held
    /\ Commit(handler_debug(Cur, k, message), "debug", "step", k, NoErr, FALSE)
    /\ UNCHANGED <<held, recent, listeners, snapshot>>

Warn(k, message) ==
    /\ k \in held
    /\ Commit(handler_warn(Cur, k, message), "warn", "step", k, NoErr, FALSE)
    /\ UNCHANGED <<held, recent, listeners, snapshot>>

Info(k, message) ==
    /\ k \in held
    /\ Commit(handler_info(Cur, k, message), "info", "step", k, NoErr, FALSE)
    /\ UNCHANGED <<held, recent, listeners, snapshot>>

Finish(k, err, skip) ==
    /\ k \in held
    /\ Commit(handler_finish(Cur, k, err, skip), "finish", "step", k, err, skip)
    /\ UNCHANGED <<held, recent, listeners, snapshot>>

ResetCreationTimeStamp(k) ==
    /\ k \in held
    /\ Commit(handler_resetCreationTimeStamp(Cur, k), "resetCreationTimeStamp", "step",
              k, NoErr, FALSE)
    /\ UNCHANGED <<held, recent, listeners, snapshot>>

Get(k, g) ==
    /\ k \in held
    /\ Commit(handler_get(Cur, k, g), g, "step", k, NoErr, FALSE)
    /\ UNCHANGED <<held, recent, listeners, snapshot>>

NullCall(m) ==
    /\ NullHandle \in held
    /\ Commit(null_call(Cur, m), m, "null", NullHandle, NoErr, FALSE)
    /\ UNCHANGED <<held, recent, listeners, snapshot>>

JobFinish(err) ==
    /\ Commit(finish(Cur, err), "finish", "job", Undefined, err, FALSE)
    /\ UNCHANGED <<held, recent, listeners, snapshot>>

FatalError(err) ==
    /\ Commit(fatalError(Cur, err), "fatalError", "job", Undefined, err, FALSE)
    /\ UNCHANGED <<held, recent, listeners, snapshot>>

StepKeys == Keys \ {SomethingWentWrong}

Next ==
    \/ \E ev \in {"error"} : On(ev)
    \/ \E name \in Names, id \in Ids, er \in BOOLEAN : Create(name, id, er)
    \/ \E k \in StepKeys : Start(k)
    \/ \E k \in StepKeys, m \in Messages : Write(k, m)
    \/ \E k \in StepKeys, m \in Messages : Debug(k, m)
    \/ \E k \in StepKeys, m \in Messages : Warn(k, m)
    \/ \E k \in StepKeys, m \in Messages : Info(k, m)
    \/ \E k \in StepKeys, err \in Errs, skip \in BOOLEAN : Finish(k, err, skip)
    \/ \E k \in StepKeys : ResetCreationTimeStamp(k)
    \/ \E k \in StepKeys, g \in Getters : Get(k, g)
    \/ \E m \in HandleMethods : NullCall(m)
    \/ \E err \in Errs : JobFinish(err)
    \/ \E err \in Errs : FatalError(err)

Spec == Init /\ [][Next]_vars

\* the values the store may notify for the entry of step k: none yet, the
\* entry as pushed, an entry of another name
Snapshots(k) ==
    {NoSnapshot, Snapshot(TRUE, steps[k].name), Snapshot(TRUE, "other")}

\* the store delivers a value notification to the watcher of step k
Notify(k, val) ==
    /\ steps[k] # NoStep
    /\ steps[k].ref \in watching
    /\ Commit(notify(Cur, k, val), "notify", "store", k, NoErr, FALSE)
    /\ snapshot' = val
    /\ UNCHANGED <<held, recent, listeners>>

NextWatch ==
    \/ Next
    \/ \E k \in Keys : \E val \in Snapshots(k) : Notify(k, val)

SpecWatch == Init /\ [][NextWatch]_vars

----------------------------------------------------------------------------
(* The Redis write strategies.  A JavaScript value is a record: t is its  *)
(* kind, v the text of a scalar, fields the (name, value) pairs of an     *)
(* object in insertion order.                                              *)

MaxStack == 2
MaxChain == 2

JS(t, v, fields) == [t |-> t, v |-> v, fields |-> fields]
Str(v) == JS("string", v, <<>>)
Num(v) == JS("number", v, <<>>)
Obj(fields) == JS("object", "", fields)
Null == JS("null", "", <<>>)

\* typeof: null is reported as an object
typeof(obj) == IF obj.t = "null" THEN "object" ELSE obj.t

RedisKey == "k"
FieldNames == {"log", "x"}
Objs == {Str("hello"), Num("1"), Null, Obj(<<>>),
         Obj(<<<<"a", Num("1")>>, <<"b", Num("2")>>>>)}
Stacks == UNION {[1..n -> FieldNames] : n \in 0..MaxStack}
KeySets == {{}, {"log"}}

\* a strategy instance: its class and, for the flatten strategy, this.keys
Flatten(keys) == [class |-> "RedisFlattenStrategy", keys |-> keys]
Set == [class |-> "RedisSetStratry", keys |-> {}]
Strategies == {Flatten(keys) : keys \in KeySets} \cup {Set}
Chains == UNION {[1..n -> Strategies] : n \in 0..MaxChain}

\* a command received by the redis client
Cmd(cmd, key, args) == [cmd |-> cmd, key |-> key, args |-> args]

\* stack.pop(): the last entry and the stack without it
Top(stack) == stack[Len(stack)]
Pop(stack) == SubSeq(stack, 1, Len(stack) - 1)

\* the state a push runs on and leaves: the caller's stack, the commands the
\* client received, the return value and whether the call threw
Run(stack) == [stack |-> stack, client |-> <<>>, ret |-> Undefined,
               threw |-> "none", invoked |-> <<>>]

RedisFlattenStrategy_push_AnyValue(self, obj, key, r) ==
    IF Len(r.stack) = 1 /\ r.stack[1] \in self.keys
    THEN [r EXCEPT !.client = Append(@, Cmd("rpush", key \o ":" \o Top(r.stack), <<obj>>)),
                   !.stack = Pop(@),
                   !.ret = TRUE]
    ELSE [r EXCEPT !.ret = FALSE]

RedisFlattenStrategy_push(self, obj, key, r) ==
    IF Len(r.stack) = 1 /\ typeof(obj) = "string" /\ r.stack[1] \in self.keys
    THEN [r EXCEPT !.client = Append(@, Cmd("rpush", key \o ":" \o Top(r.stack), <<obj>>)),
                   !.stack = Pop(@),
                   !.ret = TRUE]
    ELSE [r EXCEPT !.ret = FALSE]

\* Object.keys(obj).reduce(...): [k1, v1, k2, v2, ...] in field order
RECURSIVE hsetKeysValues(_)
hsetKeysValues(fields) ==
    IF fields = <<>> THEN <<>>
    ELSE <<Str(fields[1][1]), fields[1][2]>> \o hsetKeysValues(Tail(fields))

RedisSetStratry_push(self, obj, key, r) ==
    LET wrap == typeof(obj) # "object" /\ Len(r.stack) # 0
        o    == IF wrap THEN Obj(<<<<Top(r.stack), obj>>>>) ELSE obj
        r1   == IF wrap THEN [r EXCEPT !.stack = Pop(@)] ELSE r
    IN  IF typeof(o) = "object"
        THEN IF o.t = "null"
             \* Object.keys(null) throws before any command is sent
             THEN [r1 EXCEPT !.threw = "TypeError", !.ret = Undefined]
             ELSE [r1 EXCEPT !.client = Append(@, Cmd("hmset", key, hsetKeysValues(o.fields))),
                             !.ret = TRUE]
        ELSE [r1 EXCEPT !.client = Append(@, Cmd("set", key, <<o>>)),
                        !.ret = TRUE]

\* strategy.push(obj, key, redisClient, stack), by the class of the instance
strategy_push(self, obj, key, r) ==
    LET r1 == [r EXCEPT !.invoked = Append(@, self)]
    IN  IF self.class = "RedisFlattenStrategy"
        THEN RedisFlattenStrategy_push(self, obj, key, r1)
        ELSE RedisSetStratry_push(self, obj, key, r1)

\* this.strategies.some(...): in order, up to the first that returns true; an
\* exception of a strategy leaves the loop; push itself returns nothing
RECURSIVE ChainRedisStrategy_push(_, _, _, _)
ChainRedisStrategy_push(strategies, obj, key, r) ==
    IF strategies = <<>> THEN [r EXCEPT !.ret = Undefined]
    ELSE LET r1 == strategy_push(Head(strategies), obj, key, r)
         IN  IF r1.threw # "none" THEN r1
             ELSE IF r1.ret = TRUE THEN [r1 EXCEPT !.ret = Undefined]
             ELSE ChainRedisStrategy_push(Tail(strategies), obj, key, r1)

loggerVars == <<fatal, finished, steps, handler, listeners, remote, progress,
                pushCount, held, watching, acks, recent, snapshot,
                initializeStepReference, firstStepCreationTime, calls, last>>

\* the arguments of one push: a value, the path stack and the strategies
RedisInput(obj, stack, strategies) ==
    [pc |-> "input", op |-> "", obj |-> obj, stack |-> stack,
     strategies |-> strategies, out |-> Run(stack)]

InitRedis ==
    /\ LoggerInit
    /\ initializeStepReference = FALSE
    /\ \E obj \in Objs, stack \in Stacks, strategies \in Chains :
           redis = RedisInput(obj, stack, strategies)

Pushed(op, out) ==
    /\ redis.pc = "input"
    /\ redis' = [redis EXCEPT !.pc = "done", !.op = op, !.out = out]
    /\ UNCHANGED loggerVars

\* new RedisFlattenStrategy(keys).push(obj, key, redisClient, stack)
FlattenPush(keys) ==
    /\ redis.strategies = <<Flatten(keys)>>
    /\ Pushed("flatten", strategy_push(Flatten(keys), redis.obj, RedisKey, Run(redis.stack)))

\* new RedisSetStratry().push(obj, key, redisClient, stack)
SetPush ==
    /\ redis.strategies = <<Set>>
    /\ Pushed("set", strategy_push(Set, redis.obj, RedisKey, Run(redis.stack)))

\* new ChainRedisStrategy(strategies).push(obj, key, redisClient, stack)
ChainPush ==
    Pushed("chain", ChainRedisStrategy_push(redis.strategies, redis.obj, RedisKey,
                                            Run(redis.stack)))

NextRedis ==
    \/ \E keys \in KeySets : FlattenPush(keys)
    \/ SetPush
    \/ ChainPush

SpecRedis == InitRedis /\ [][NextRedis]_vars

----------------------------------------------------------------------------
(* Vocabulary of the properties.                                           *)

\* what a call must leave alone to have mutated nothing
progState == <<fatal, finished, steps, handler, remote, progress, pushCount, watching>>

\* this step is a call of method op on a handle of kind handle
Called(op, handle) == calls' = calls + 1 /\ last'.op = op /\ last'.handle = handle

\* this step is a call of handle method op on the step of key k
CalledOn(op, k) == Called(op, "step") /\ last'.key = k

Silent == last'.writes = <<>> /\ UNCHANGED progState

\* this step is a finish(err, skip) the step of key k accepts
ValidFinish(k) == CalledOn("finish", k) /\ ~fatal /\ IsActive(steps[k].status)

LogMethods == {"write", "debug", "info", "warn"}

----------------------------------------------------------------------------
\* C1: a finish(err, skip) with a truthy err that a pending or running step
\* accepts sets its status to 'error', whatever skip and hasWarning are.
C1_ErrorFirst ==
    [][\A k \in StepKeys :
         ValidFinish(k) /\ Truthy(last'.err) => steps'[k].status = STATUS.ERROR]_vars

\* C2: a finish(undefined, true) that a pending or running step accepts sets
\* its status to 'skipped', also when a warn() was accepted on the step.
C2_SkipBeforeWarning ==
    [][\A k \in StepKeys :
         ValidFinish(k) /\ ~Truthy(last'.err) /\ last'.skip
             => steps'[k].status = STATUS.SKIPPED]_vars

C4_TerminalEmitsError ==
    [][\A k \in StepKeys, op \in LogMethods \cup {"finish"} :
         CalledOn(op, k) /\ steps[k].status \in Terminal
             => last'.emitted = <<"error">> /\ Silent]_vars

\* C4 as amended: on a terminal step, every finish, write, debug, info or
\* warn through a handle of the step mutates nothing and issues no store
\* write; it emits exactly one 'error' event while the job is not fatal and
\* nothing once the job is fatal.
C4_TerminalMutatesNothing ==
    [][\A k \in StepKeys, op \in LogMethods \cup {"finish"} :
         CalledOn(op, k) /\ steps[k].status \in Terminal
             => /\ Silent
                /\ last'.emitted = IF fatal THEN <<>> ELSE <<"error">>]_vars

\* C4's case: a step finished once, and a second finish on it was refused
\* with an 'error' event.
C4_Witness ==
    /\ last.op = "finish" /\ last.handle = "step" /\ last.key \in StepKeys
    /\ steps[last.key].status \in Terminal
    /\ last.emitted = <<"error">>
    /\ last.writes = <<>>
    /\ ~fatal

\* C5 as stated: a create that resolves to key k leaves exactly one step
\* entity for k, pending, with exactly one push of a step record issued for
\* k so far; a repeated create also clears the entry's finishTimeStamp and
\* keeps its log lines and its reference.
C5_ExactlyOnePush ==
    [][\A k \in StepKeys :
         Called("create", "job") /\ last'.ret = k
             => /\ pushCount'[k] = 1
                /\ steps'[k].status = STATUS.PENDING
                /\ Len(remote') = Cardinality({x \in Keys : steps'[x] # NoStep})]_vars

\* C5 as amended: a create that resolves to key k (the job neither fatal nor
\* finished) leaves exactly one step entity for k, pending in memory and in
\* the store.  One push of a step record has been issued for k, except for
\* the "Initializing Process" step the constructor registers from
\* initializeStepReference, for which none is.  A repeated create issues one
\* update {status: pending, finishTimeStamp: ""} and nothing else: no new
\* entry, the entry's log lines and the step's reference kept.
C5_OneEntityPerKey ==
    [][\A k \in StepKeys :
         Called("create", "job") /\ last'.ret = k
             => LET ref == steps'[k].ref IN
                /\ ~fatal /\ ~finished
                /\ pushCount'[k] =
                       IF k = InitializingProcess /\ initializeStepReference
                       THEN 0 ELSE 1
                /\ steps'[k].status = STATUS.PENDING
                /\ remote'[ref].status = STATUS.PENDING
                /\ Len(remote') = Cardinality({x \in Keys : steps'[x] # NoStep})
                /\ \A x \in Keys \ {k} : steps'[x] = steps[x]
                /\ steps[k] # NoStep
                       => /\ ref = steps[k].ref
                          /\ Len(remote') = Len(remote)
                          /\ pushCount' = pushCount
                          /\ remote'[ref].logs = remote[ref].logs
                          /\ remote'[ref].finishTimeStamp = ""
                          /\ last'.writes =
                                 <<W(ref, "", "update",
                                     <<"status", STATUS.PENDING,
                                       "finishTimeStamp", "">>)>>
                /\ steps[k] = NoStep
                       => /\ Len(remote') = Len(remote) + 1
                          /\ remote'[ref].logs = <<>>
                          /\ Len(last'.writes) = 1
                          /\ last'.writes[1].method = "push"]_vars

\* C5's case: a step that was written to and finished has been created again:
\* pending, finish time cleared in the store, log kept, still one push.
C5_Witness ==
    /\ last.op = "create" /\ last.ret \in StepKeys
    /\ Len(last.writes) = 1 /\ last.writes[1].method = "update"
    /\ steps[last.ret].status = STATUS.PENDING
    /\ steps[last.ret].finishTimeStamp = Now
    /\ remote[steps[last.ret].ref].finishTimeStamp = ""
    /\ remote[steps[last.ret].ref].logs # <<>>
    /\ pushCount[last.ret] = 1

\* C6: once the job is fatal, a write, start or finish called on a handle
\* that create returns raises nothing, issues no store write and changes no
\* step or job state.
C6_NullHandleIsInert ==
    [][\A m \in {"write", "start", "finish"} :
         Called(m, "null") /\ fatal => last'.threw = "none" /\ Silent]_vars

\* C7: a fatalError(err) with a truthy err on a job that is not yet fatal
\* sets the fatal latch and leaves a step with status 'error': the step of
\* the active handler, or the synthesized step "Something went wrong".
C7_FatalSurfacesErrorStep ==
    [][Called("fatalError", "job") /\ Truthy(last'.err) /\ ~fatal
           => /\ fatal'
              /\ \E k \in {handler, SomethingWentWrong} \cap Keys :
                     steps'[k].status = STATUS.ERROR]_vars

\* C8: fatalError with a falsy error throws to the caller and changes
\* nothing: the latches, the steps, the handler, the observers and the store
\* are as before and no store write is issued.
C8_FatalErrorWithoutError ==
    [][Called("fatalError", "job") /\ ~Truthy(last'.err)
           => /\ last'.threw = "CFError"
              /\ last'.emitted = <<>>
              /\ Silent
              /\ UNCHANGED <<listeners, held>>]_vars

\* C8's case: fatalError() was called with no error on a job that is not
\* fatal and has an active handler; it threw and the latch is not set.
C8_Witness ==
    /\ last.op = "fatalError" /\ ~Truthy(last.err)
    /\ last.threw = "CFError"
    /\ ~fatal
    /\ handler # NoHandler

\* C9: once fatal is true it stays true, and no call on any step handle
\* (one obtained before the fatal error, or a null-object one) changes a
\* step's status, hasWarning or finishTimeStamp, appends a log line or
\* issues a store write.
C9_FatalLatch ==
    [][/\ fatal => fatal'
       /\ fatal /\ calls' = calls + 1 /\ last'.handle \in {"step", "null"}
              => Silent /\ last'.emitted = <<>>]_vars

\* C9's case: the job is fatal and a write was called through a handle,
\* obtained before the fatal error, of a step that is still pending or
\* running.
C9_Witness ==
    /\ fatal
    /\ last.op = "write" /\ last.handle = "step" /\ last.key \in StepKeys
    /\ IsActive(steps[last.key].status)
    /\ last.writes = <<>>

\* C10: an invalid-state call on a step handle (start on a step that is not
\* pending; write, debug, info, warn, finish or resetCreationTimeStamp on a
\* terminal step) raises nothing into the caller, with or without an
\* 'error' observer registered.
C10_InvalidCallNeverThrows ==
    [][\A k \in StepKeys :
         \/ CalledOn("start", k) /\ steps[k].status # STATUS.PENDING
         \/ /\ \E op \in LogMethods \cup {"finish", "resetCreationTimeStamp"} :
                   CalledOn(op, k)
            /\ steps[k].status \in Terminal
         => last'.threw = "none"]_vars

----------------------------------------------------------------------------
\* C11: a finish(err) of the TaskLogger on a job that is not fatal sets the
\* finished latch and leaves the step that the most recent create returned
\* terminal, if that step was still pending or running.
C11_JobFinishClosesRecentStep ==
    [][Called("finish", "job") /\ ~fatal
           => /\ finished'
              /\ recent \in Keys /\ IsActive(steps[recent].status)
                     => steps'[recent].status \in Terminal]_vars

\* C12: a finish() of the TaskLogger after one that set the finished latch,
\* and a fatalError(err) after one that set the fatal latch, issue no store
\* write, emit no event, raise nothing and change no step or job state.
C12_RedundantJobCalls ==
    [][\/ Called("finish", "job") /\ finished
       \/ Called("fatalError", "job") /\ Truthy(last'.err) /\ fatal
       => /\ Silent
          /\ last'.emitted = <<>>
          /\ last'.threw = "none"
          /\ UNCHANGED <<listeners, held, acks>>]_vars

\* C12's case: the TaskLogger finished a step with a first finish(), and a
\* second finish() has been called on the finished job.
C12_Witness ==
    /\ last.op = "finish" /\ last.handle = "job"
    /\ last.was.finished /\ finished /\ ~fatal
    /\ last.writes = <<>>
    /\ \E k \in StepKeys : steps[k].status \in Terminal

\* C16: the status of an existing step changes only from pending to running
\* by start() on it, from pending or running to a terminal status by a finish
\* that reaches it (its handle, or the job's finish or fatalError through the
\* current handler), and from any status to pending by a create that returns
\* it.  start() leaves a step that is not pending alone, the log methods and
\* resetCreationTimeStamp change no status, and a terminal step leaves the
\* terminal set only by such a create.
C16_StatusTransitions ==
    [][/\ \A k \in Keys :
            steps[k] # NoStep /\ steps'[k].status # steps[k].status
            => \/ /\ steps[k].status = STATUS.PENDING
                  /\ steps'[k].status = STATUS.RUNNING
                  /\ CalledOn("start", k)
               \/ /\ IsActive(steps[k].status)
                  /\ steps'[k].status \in Terminal
                  /\ \/ CalledOn("finish", k)
                     \/ Called("finish", "job") /\ handler = k
                     \/ Called("fatalError", "job") /\ handler = k
               \/ /\ steps'[k].status = STATUS.PENDING
                  /\ Called("create", "job") /\ last'.ret = k
       /\ \A k \in Keys :
            CalledOn("start", k) /\ steps[k].status # STATUS.PENDING
            => steps' = steps
       /\ \A k \in Keys, m \in LogMethods \cup {"resetCreationTimeStamp"} :
            CalledOn(m, k) => \A j \in Keys : steps'[j].status = steps[j].status
       /\ \A k \in Keys :
            steps[k] # NoStep /\ steps[k].status \in Terminal
               /\ steps'[k].status \notin Terminal
            => Called("create", "job") /\ last'.ret = k]_vars

C16_Witness ==
    /\ last.op = "start" /\ last.handle = "step" /\ ~last.was.fatal
    /\ last.emitted = <<"error">>
    /\ steps[last.key].status \in Terminal
    /\ last.writes = <<>>

\* the log lines the writes ws push to the logs of store entry ref, in order
RECURSIVE LinesPushed(_, _)
LinesPushed(ws, ref) ==
    IF ws = <<>> THEN <<>>
    ELSE (IF Head(ws).ref = ref /\ Head(ws).path = "logs" /\ Head(ws).method = "push"
          THEN Head(ws).val ELSE <<>>) \o LinesPushed(Tail(ws), ref)

\* this step is a finish(err) that reaches the active step of key k: through
\* its handle, or through the job's finish or fatalError and the handler
FinishReaches(k) ==
    /\ ~fatal /\ steps[k] # NoStep /\ IsActive(steps[k].status)
    /\ \/ CalledOn("finish", k)
       \/ Called("finish", "job") /\ handler = k
       \/ Called("fatalError", "job") /\ handler = k /\ Truthy(last'.err)

\* C17: the log lines a call pushes for a step reach the step's logs in the
\* store after all earlier ones, in issue order; a valid finish with a truthy
\* err issues the red error line to the step's logs, then one update carrying
\* status and finishTimeStamp, then the set of lastUpdate, and with a falsy
\* err the update and the set of lastUpdate; no finish writes status or
\* finishTimeStamp with any other store operation.
C17_FinishWriteOrder ==
    [][/\ \A k \in Keys :
            steps[k] # NoStep /\ calls' = calls + 1
            => remote'[steps[k].ref].logs =
                   remote[steps[k].ref].logs \o LinesPushed(last'.writes, steps[k].ref)
       /\ \A k \in Keys :
            FinishReaches(k)
            => LET ref    == steps[k].ref
                   update == W(ref, "", "update",
                               <<"status", steps'[k].status,
                                 "finishTimeStamp", steps'[k].finishTimeStamp>>)
                   touch  == W(0, "lastUpdate", "set", <<Now>>)
                   line   == W(ref, "logs", "push",
                               <<"\\x1B[31m" \o last'.err \o "\\x1B[0m\r\n">>)
               IN  /\ last'.writes = IF Truthy(last'.err)
                                     THEN <<line, update, touch>>
                                     ELSE <<update, touch>>
                   /\ remote'[ref].status = steps'[k].status
                   /\ remote'[ref].finishTimeStamp = steps'[k].finishTimeStamp]_vars

C17_Witness ==
    /\ last.op = "finish" /\ last.handle = "step" /\ Truthy(last.err)
    /\ Len(last.writes) = 3
    /\ last.writes[1].path = "logs" /\ last.writes[2].method = "update"
    /\ last.writes[3].path = "lastUpdate"
    /\ Len(remote[steps[last.key].ref].logs) >= 2

Emitted(ev) == \E i \in 1..Len(last'.emitted) : last'.emitted[i] = ev

\* C18: the watcher of a new step is one-shot under every interleaving of
\* notifications and calls: 'step-pushed' is emitted only by a notification
\* whose value has the step's name, the watcher is deregistered by that
\* notification (so a step is acknowledged at most once per push), any other
\* notification leaves the watcher armed and emits nothing, a create of a new
\* step arms exactly the watcher of its entry, and a re-create arms no
\* watcher; no call emits 'step-pushed'.
C18_WatcherIsOneShot ==
    [][/\ \A k \in Keys :
            Called("notify", "store") /\ last'.key = k
            => LET matches == snapshot'.exists /\ snapshot'.name = steps[k].name
               IN  /\ steps[k].ref \in watching
                   /\ Emitted("step-pushed") <=> matches
                   /\ matches => /\ watching' = watching \ {steps[k].ref}
                                 /\ acks'[k] = acks[k] + 1
                                 /\ last'.emitted = <<"step-pushed">>
                   /\ ~matches => watching' = watching /\ acks' = acks
                   /\ last'.writes = <<>> /\ steps' = steps
       /\ calls' = calls + 1 /\ last'.op # "notify"
            => ~Emitted("step-pushed") /\ acks' = acks
       /\ \A k \in Keys :
            Called("create", "job") /\ last'.ret = k
            => IF steps[k] = NoStep
               THEN watching' = watching \cup {steps'[k].ref}
               ELSE watching' = watching
       /\ \A k \in Keys : acks'[k] <= pushCount'[k] /\ pushCount'[k] <= 1]_vars

\* C18's case: a step was pushed, acknowledged, finished and re-created; the
\* re-create armed no watcher.
C18_Witness ==
    /\ last.op = "create" /\ last.ret \in StepKeys
    /\ pushCount[last.ret] = 1 /\ acks[last.ret] = 1
    /\ steps[last.ret].ref \notin watching
    /\ steps[last.ret].finishTimeStamp = Now
    /\ last.emitted = <<>>

\* C19: in every reachable state the step the current handler is bound to
\* is pending or running.  A create that returns a step leaves that step
\* pending and installs its handler; every accepted finish, through the
\* handle of any step, clears the handler, also when the handler is bound to
\* another step.
C19_HandlerStepIsActive ==
    /\ [](handler # NoHandler
             => steps[handler] # NoStep /\ IsActive(steps[handler].status))
    /\ [][/\ \A k \in Keys :
               Called("create", "job") /\ last'.ret = k
               => handler' = k /\ steps'[k].status = STATUS.PENDING
          /\ \A k \in Keys : ValidFinish(k) => handler' = NoHandler]_vars

\* C19's case: two steps were created and the older one finished through its
\* handle; the handler, bound to the newer step, is cleared and the newer
\* step is still active.
C19_Witness ==
    /\ calls = 3 /\ last.op = "finish" /\ last.handle = "step"
    /\ steps[last.key].status \in Terminal
    /\ recent \in Keys /\ recent # last.key
    /\ IsActive(steps[recent].status)
    /\ handler = NoHandler

\* C20: no operation clears hasWarning: once it is true on a step it stays
\* true, through a re-create of the step too, and every accepted finish with
\* a falsy err on such a step gives it the status 'warning', whatever skip
\* is and whether or not warn() was called since the step was re-created.
C20_WarningIsSticky ==
    [][/\ \A k \in Keys :
            steps[k] # NoStep /\ steps[k].hasWarning => steps'[k].hasWarning
       /\ \A k \in Keys :
            FinishReaches(k) /\ ~Truthy(last'.err) /\ steps[k].hasWarning
            => /\ steps'[k].status = STATUS.WARNING
               /\ remote'[steps[k].ref].status = STATUS.WARNING]_vars

\* C20's case: warn() was accepted on a step, the step was finished (its
\* finishTimeStamp is set) and then re-created (the store's finishTimeStamp
\* is reset and the step is pending again): hasWarning is still true.
C20_Witness ==
    /\ last.op = "create" /\ last.ret \in StepKeys
    /\ steps[last.ret].hasWarning
    /\ steps[last.ret].status = STATUS.PENDING
    /\ steps[last.ret].finishTimeStamp = Now
    /\ remote[steps[last.ret].ref].finishTimeStamp = ""
    /\ handler = last.ret

----------------------------------------------------------------------------
(* Properties of the Redis strategies (under SpecRedis).                   *)

Done(op) == redis.pc = "done" /\ redis.op = op

\* C13: RedisFlattenStrategy.push returns true if and only if the stack has
\* exactly one entry, the value is a string and the entry is a recognized
\* key; when it claims it sends one rpush of the value to "<key>:<field>" and
\* nothing else, otherwise it sends nothing.  Through the chain
\* [Flatten({log}), Set] the string 'hello' with stack ['log'] ends as
\* rpush('<key>:log', 'hello') and with an empty stack as set(key, 'hello').
C13_FlattenClaims ==
    /\ Done("flatten") =>
         LET self   == redis.strategies[1]
             claims == /\ Len(redis.stack) = 1
                       /\ redis.obj.t = "string"
                       /\ redis.stack[1] \in self.keys
         IN  /\ redis.out.threw = "none"
             /\ redis.out.ret = claims
             /\ claims => redis.out.client =
                    <<Cmd("rpush", RedisKey \o ":" \o redis.stack[1], <<redis.obj>>)>>
             /\ ~claims => redis.out.client = <<>> /\ redis.out.stack = redis.stack
    /\ /\ Done("chain")
       /\ redis.strategies = <<Flatten({"log"}), Set>>
       /\ redis.obj = Str("hello")
       => /\ redis.stack = <<"log">>
              => redis.out.client = <<Cmd("rpush", "k:log", <<Str("hello")>>)>>
          /\ redis.stack = <<>>
              => redis.out.client = <<Cmd("set", "k", <<Str("hello")>>)>>

C13_Witness ==
    /\ Done("chain")
    /\ redis.strategies = <<Flatten({"log"}), Set>>
    /\ redis.obj = Str("hello")
    /\ redis.stack = <<"log">>
    /\ redis.out.client = <<Cmd("rpush", "k:log", <<Str("hello")>>)>>
    /\ redis.out.invoked = <<Flatten({"log"})>>

\* C14: RedisSetStratry.push always returns true and sends exactly one
\* command: an object goes to hmset(key, [k1, v1, k2, v2, ...]) in field
\* order whatever the stack; a scalar with a non-empty stack is wrapped as
\* {top: value} and goes to hmset; a scalar with an empty stack goes to
\* set(key, value).
C14_SetAlwaysHandles ==
    Done("set") =>
        LET obj    == redis.obj
            scalar == obj.t \in {"string", "number"}
        IN  /\ redis.out.threw = "none"
            /\ redis.out.ret = TRUE
            /\ Len(redis.out.client) = 1
            /\ obj.t = "object"
                   => redis.out.client = <<Cmd("hmset", RedisKey, hsetKeysValues(obj.fields))>>
            /\ scalar /\ redis.stack # <<>>
                   => redis.out.client =
                          <<Cmd("hmset", RedisKey, <<Str(Top(redis.stack)), obj>>)>>
            /\ scalar /\ redis.stack = <<>>
                   => redis.out.client = <<Cmd("set", RedisKey, <<obj>>)>>

\* C15: ChainRedisStrategy.push invokes its strategies in list order up to
\* the first that claims and none after it; a chain that contains the
\* catch-all strategy sends exactly one command per push, and the chain
\* [Flatten, Set] never sends both an rpush and an hmset/set.
C15_ChainStopsAtFirstClaim ==
    Done("chain") =>
        LET n == Len(redis.out.invoked)
        IN  /\ redis.out.invoked = SubSeq(redis.strategies, 1, n)
            /\ (\E i \in 1..Len(redis.strategies) : redis.strategies[i] = Set)
                   => Len(redis.out.client) = 1
            /\ Len(redis.out.client) <= 1

=============================================================================
